---- MODULE Spec2Model ----
(***************************************************************************)
(* Hole filling in a grayscale image (HoleFilling.cpp, Pixel.cpp, Hole.h). *)
(*                                                                         *)
(* The image is a rows x cols array of float cells; a cell equal to        *)
(* MISSING_VALUE is a missing pixel.  main finds the first missing pixel,  *)
(* computes the hole that contains it by a breadth-first traversal, marks  *)
(* the hole boundary on one copy of the image and fills the hole on        *)
(* another copy.                                                           *)
(*                                                                         *)
(* Cell values are exact rationals <<numerator, denominator>> extended     *)
(* with the IEEE specials the code can produce (a zero denominator):       *)
(* <<1,0>> and <<-1,0>> are the infinities and <<0,0>> is NaN.  Rounding   *)
(* of float arithmetic is not modelled.                                    *)
(***************************************************************************)
EXTENDS Integers, Sequences, FiniteSets, TLC

(* ------------------------------------------------------------------ *)
(* Bounds of the model                                                 *)
(* ------------------------------------------------------------------ *)

\* Images of every shape rows x cols with rows * cols <= MaxCells.
MaxCells == 6

\* The images setNeighbours is called for on its own have 1..MaxSide rows and
\* 1..MaxSide columns.
MaxSide == 3

\* The images filled in float arithmetic have every shape rows x cols with
\* rows * cols <= MaxFloatCells.
MaxFloatCells == 5

\* The coordinates of the pixels defaultWeightedFunction is called with on its
\* own are in 0..MaxCoord.
MaxCoord == 2

(* ------------------------------------------------------------------ *)
(* Program constants                                                   *)
(* ------------------------------------------------------------------ *)

MISSING_VALUE == -1
INITIAL_ROW == 0
INITIAL_COLUMN == 0
DEFAULT_MARK_COLOR == 1
EPSILON_INITIAL == -1
Z_INITIAL == -1
EXIT_SUCCESS == 0

(* ------------------------------------------------------------------ *)
(* float cells                                                         *)
(* ------------------------------------------------------------------ *)

Abs(n) == IF n < 0 THEN 0 - n ELSE n

Sign(n) == IF n < 0 THEN -1 ELSE IF n > 0 THEN 1 ELSE 0

RECURSIVE GCD(_, _)
GCD(a, b) == IF b = 0 THEN a ELSE GCD(b, a % b)

\* The canonical representative of n/d.
Norm(n, d) ==
    IF d = 0 THEN <<Sign(n), 0>>
    ELSE LET g == GCD(Abs(n), Abs(d))
         IN  <<(Sign(d) * n) \div g, Abs(d) \div g>>

\* Conversion of an integer literal to float.
ToFloat(n) == <<n, 1>>

NaN == <<0, 0>>

IsFinite(a) == a[2] # 0

FAdd(a, b) ==
    IF a[2] = 0 /\ b[2] = 0
    THEN (IF a = b THEN a ELSE NaN)
    ELSE Norm(a[1] * b[2] + b[1] * a[2], a[2] * b[2])

FMul(a, b) == Norm(a[1] * b[1], a[2] * b[2])

FDiv(a, b) == Norm(a[1] * b[2], a[2] * b[1])

\* a <= b for finite a and b.
FLeq(a, b) == a[1] * b[2] <= b[1] * a[2]

\* The comparison written !(image[x][y] > MISSING_VALUE): NaN compares as
\* missing.
IsMissing_OrNaN(v) == v = ToFloat(MISSING_VALUE) \/ v = NaN

\* image[x][y] == MISSING_VALUE
IsMissing(v) == v = ToFloat(MISSING_VALUE)

(* ------------------------------------------------------------------ *)
(* Pixel (Pixel.h, Pixel.cpp)                                          *)
(* ------------------------------------------------------------------ *)

\* Pixel::Pixel(x, y): the coordinates and an empty neighbour list.  The
\* elements of a neighbour list are Pixels whose own list is empty; they are
\* kept as coordinate pairs.
Pixel(x, y) == [x |-> x, y |-> y, neighbours |-> <<>>]

\* The coordinate pair of a Pixel.
Coord(p) == <<p.x, p.y>>

\* int connectivityMask[2] = {1, -1};
connectivityMask == <<1, -1>>

\* FourNeighbours with _x + mask > 0 for _x + mask >= 0: row 0 is never a
\* neighbour.
FourNeighbours_RowZeroExcluded(p, mask, maxX, maxY) ==
    (IF p.x + mask > 0 /\ p.x + mask < maxX
     THEN << <<p.x + mask, p.y>> >> ELSE <<>>)
    \o
    (IF p.y + mask >= 0 /\ p.y + mask < maxY
     THEN << <<p.x, p.y + mask>> >> ELSE <<>>)

\* FourNeighbours without its second if statement: the neighbour in the same
\* row is never added.
FourNeighbours_NoColumn(p, mask, maxX, maxY) ==
    IF p.x + mask >= 0 /\ p.x + mask < maxX
    THEN << <<p.x + mask, p.y>> >> ELSE <<>>

\* FourNeighbours with its two if statements in the other order: the
\* neighbour in the same row is added first.
FourNeighbours_ColumnFirst(p, mask, maxX, maxY) ==
    (IF p.y + mask >= 0 /\ p.y + mask < maxY
     THEN << <<p.x, p.y + mask>> >> ELSE <<>>)
    \o
    (IF p.x + mask >= 0 /\ p.x + mask < maxX
     THEN << <<p.x + mask, p.y>> >> ELSE <<>>)

\* One round of the first loop of setNeighbours.
FourNeighbours(p, mask, maxX, maxY) ==
    (IF p.x + mask >= 0 /\ p.x + mask < maxX
     THEN << <<p.x + mask, p.y>> >> ELSE <<>>)
    \o
    (IF p.y + mask >= 0 /\ p.y + mask < maxY
     THEN << <<p.x, p.y + mask>> >> ELSE <<>>)

\* DiagonalNeighbours without its second inner if statement: the neighbour at
\* (x + mask, y - mask) is never added.
DiagonalNeighbours_NoAntiDiagonal(p, mask, maxX, maxY) ==
    IF p.x + mask >= 0 /\ p.x + mask < maxX
    THEN (IF p.y + mask >= 0 /\ p.y + mask < maxY
          THEN << <<p.x + mask, p.y + mask>> >> ELSE <<>>)
    ELSE <<>>

\* DiagonalNeighbours with _y + mask for _y - mask in its second inner if
\* statement: the neighbour at (x + mask, y + mask) is added twice.
DiagonalNeighbours_SameSign(p, mask, maxX, maxY) ==
    IF p.x + mask >= 0 /\ p.x + mask < maxX
    THEN (IF p.y + mask >= 0 /\ p.y + mask < maxY
          THEN << <<p.x + mask, p.y + mask>> >> ELSE <<>>)
         \o
         (IF p.y + mask >= 0 /\ p.y + mask < maxY
          THEN << <<p.x + mask, p.y + mask>> >> ELSE <<>>)
    ELSE <<>>

\* One round of the second loop of setNeighbours.
DiagonalNeighbours(p, mask, maxX, maxY) ==
    IF p.x + mask >= 0 /\ p.x + mask < maxX
    THEN (IF p.y + mask >= 0 /\ p.y + mask < maxY
          THEN << <<p.x + mask, p.y + mask>> >> ELSE <<>>)
         \o
         (IF p.y - mask >= 0 /\ p.y - mask < maxY
          THEN << <<p.x + mask, p.y - mask>> >> ELSE <<>>)
    ELSE <<>>

\* setNeighbours with the first loop in an else branch of
\* if (connectivity == 8): connectivity 8 gives the diagonal neighbours only.
setNeighbours_DiagonalsOnly(p, connectivity, maxX, maxY) ==
    [p EXCEPT !.neighbours =
        @ \o (IF connectivity = 8
              THEN DiagonalNeighbours(p, connectivityMask[1], maxX, maxY)
                   \o DiagonalNeighbours(p, connectivityMask[2], maxX, maxY)
              ELSE FourNeighbours(p, connectivityMask[1], maxX, maxY)
                   \o FourNeighbours(p, connectivityMask[2], maxX, maxY))]

\* Pixel::setNeighbours: appends to the list the pixel already has.
setNeighbours(p, connectivity, maxX, maxY) ==
    [p EXCEPT !.neighbours =
        @ \o FourNeighbours(p, connectivityMask[1], maxX, maxY)
          \o FourNeighbours(p, connectivityMask[2], maxX, maxY)
          \o (IF connectivity = 8
              THEN DiagonalNeighbours(p, connectivityMask[1], maxX, maxY)
                   \o DiagonalNeighbours(p, connectivityMask[2], maxX, maxY)
              ELSE <<>>)]

(* ------------------------------------------------------------------ *)
(* Hole (Hole.h)                                                       *)
(* ------------------------------------------------------------------ *)

\* A default-constructed Hole.
EmptyHole == [holePixels |-> <<>>, holeBoundary |-> <<>>]

\* addHolePixels with push_front for push_back: the hole pixels are kept in
\* the reverse of the order in which they are added.
addHolePixels_Front(hole, pixel) ==
    [hole EXCEPT !.holePixels = <<pixel>> \o @]

addHolePixels(hole, pixel) ==
    [hole EXCEPT !.holePixels = Append(@, pixel)]

addHoleBoundary(hole, pixel) ==
    [hole EXCEPT !.holeBoundary = Append(@, pixel)]

(* ------------------------------------------------------------------ *)
(* findMissingPixel                                                    *)
(* ------------------------------------------------------------------ *)

\* The two nested loops from position (x, y) on: the first missing pixel, or
\* the NoMissingPixelException.
RECURSIVE ScanImage(_, _, _, _, _)
ScanImage(img, rws, cls, x, y) ==
    IF x >= rws THEN [thrown |-> TRUE, pixel |-> Pixel(0, 0)]
    ELSE IF y >= cls THEN ScanImage(img, rws, cls, x + 1, INITIAL_COLUMN)
    ELSE IF IsMissing(img[<<x, y>>]) THEN [thrown |-> FALSE, pixel |-> Pixel(x, y)]
    ELSE ScanImage(img, rws, cls, x, y + 1)

\* The loops of findMissingPixel nested the other way round: the scan goes
\* down the columns.
RECURSIVE ScanImageColumnMajor(_, _, _, _, _)
ScanImageColumnMajor(img, rws, cls, x, y) ==
    IF y >= cls THEN [thrown |-> TRUE, pixel |-> Pixel(0, 0)]
    ELSE IF x >= rws THEN ScanImageColumnMajor(img, rws, cls, INITIAL_ROW, y + 1)
    ELSE IF IsMissing(img[<<x, y>>]) THEN [thrown |-> FALSE, pixel |-> Pixel(x, y)]
    ELSE ScanImageColumnMajor(img, rws, cls, x + 1, y)

findMissingPixel_ColumnMajor(img, rws, cls) ==
    ScanImageColumnMajor(img, rws, cls, INITIAL_ROW, INITIAL_COLUMN)

\* findMissingPixel returning the pixel (0,0) after the loops instead of
\* throwing.
findMissingPixel_NoThrow(img, rws, cls) ==
    [ScanImage(img, rws, cls, INITIAL_ROW, INITIAL_COLUMN) EXCEPT !.thrown = FALSE]

findMissingPixel(img, rws, cls) ==
    ScanImage(img, rws, cls, INITIAL_ROW, INITIAL_COLUMN)

(* ------------------------------------------------------------------ *)
(* calculateHole: the body of the while loop                           *)
(* ------------------------------------------------------------------ *)

\* VisitNeighbour with visited[currentX][currentY] = true moved into the
\* branch of the boundary pixels: a missing pixel is marked only when it is
\* taken from the queue.
VisitNeighbour_MarkWhenProcessed(img, st, nb) ==
    IF ~ st.visited[nb]
    THEN IF IsMissing(img[nb])
         THEN [st EXCEPT !.pixelQueue = Append(@, Pixel(nb[1], nb[2])),
                         !.pushes[nb] = @ + 1]
         ELSE [st EXCEPT !.visited[nb] = TRUE,
                         !.hole = addHoleBoundary(@, Pixel(nb[1], nb[2]))]
    ELSE st

\* VisitNeighbour with visited[currentX][currentY] = true moved into the
\* branch of the missing pixels: a boundary pixel is not marked.
VisitNeighbour_BoundaryNotMarked(img, st, nb) ==
    IF ~ st.visited[nb]
    THEN IF IsMissing(img[nb])
         THEN [st EXCEPT !.visited[nb] = TRUE,
                         !.pixelQueue = Append(@, Pixel(nb[1], nb[2])),
                         !.pushes[nb] = @ + 1]
         ELSE [st EXCEPT !.hole = addHoleBoundary(@, Pixel(nb[1], nb[2]))]
    ELSE st

\* The if statement of the for loop over the neighbours, for one neighbour nb.
\* st is the record of the locals visited, pixelQueue, hole and of the
\* number of push_back calls made for each pixel.
VisitNeighbour(img, st, nb) ==
    IF ~ st.visited[nb]
    THEN IF IsMissing(img[nb])
         THEN [st EXCEPT !.visited[nb] = TRUE,
                         !.pixelQueue = Append(@, Pixel(nb[1], nb[2])),
                         !.pushes[nb] = @ + 1]
         ELSE [st EXCEPT !.visited[nb] = TRUE,
                         !.hole = addHoleBoundary(@, Pixel(nb[1], nb[2]))]
    ELSE st

\* The for loop over neighbours[k..].
RECURSIVE TraverseNeighbours(_, _, _, _)
TraverseNeighbours(img, st, nbs, k) ==
    IF k > Len(nbs) THEN st
    ELSE TraverseNeighbours(img, VisitNeighbour(img, st, nbs[k]), nbs, k + 1)

\* WhileBody without visited[currentPixel.getX()][currentPixel.getY()] = true:
\* the pixel taken from the queue is not marked.
WhileBody_CurrentNotMarked(img, rws, cls, connectivity, st) ==
    LET front    == Head(st.pixelQueue)
        popped   == [st EXCEPT !.pixelQueue = Tail(@)]
        current1 == setNeighbours(front, connectivity, rws, cls)
        added    == [popped EXCEPT !.hole = addHolePixels(@, current1)]
        current2 == setNeighbours(current1, connectivity, rws, cls)
    IN  TraverseNeighbours(img, added, current2.neighbours, 1)

\* WhileBody with back() and pop_back() for front() and pop_front(): the
\* queue is used as a stack.
WhileBody_PopBack(img, rws, cls, connectivity, st) ==
    LET front    == st.pixelQueue[Len(st.pixelQueue)]
        popped   == [st EXCEPT !.pixelQueue = SubSeq(@, 1, Len(@) - 1),
                               !.visited[Coord(front)] = TRUE]
        current1 == setNeighbours(front, connectivity, rws, cls)
        added    == [popped EXCEPT !.hole = addHolePixels(@, current1)]
        current2 == setNeighbours(current1, connectivity, rws, cls)
    IN  TraverseNeighbours(img, added, current2.neighbours, 1)

\* One iteration of while(!pixelQueue.empty()).  setNeighbours is called
\* twice on currentPixel: the pixel added to the hole carries the list of the
\* first call, the traversal runs over the list after the second call.
WhileBody(img, rws, cls, connectivity, st) ==
    LET front    == Head(st.pixelQueue)
        popped   == [st EXCEPT !.pixelQueue = Tail(@),
                               !.visited[Coord(front)] = TRUE]
        current1 == setNeighbours(front, connectivity, rws, cls)
        added    == [popped EXCEPT !.hole = addHolePixels(@, current1)]
        current2 == setNeighbours(current1, connectivity, rws, cls)
    IN  TraverseNeighbours(img, added, current2.neighbours, 1)

\* The while loop of calculateHole, from the locals st on.
RECURSIVE WhileLoop(_, _, _, _, _)
WhileLoop(img, rws, cls, connectivity, st) ==
    IF st.pixelQueue = <<>> THEN st
    ELSE WhileLoop(img, rws, cls, connectivity,
                   WhileBody(img, rws, cls, connectivity, st))

\* calculateHole(image, rows, cols, missingPixel, connectivity): the Hole it
\* returns.
calculateHole(img, rws, cls, missingPixel, connectivity) ==
    WhileLoop(img, rws, cls, connectivity,
              [visited    |-> [c \in (0..(rws - 1)) \X (0..(cls - 1)) |-> FALSE],
               pixelQueue |-> <<missingPixel>>,
               hole       |-> EmptyHole,
               pushes     |-> [c \in (0..(rws - 1)) \X (0..(cls - 1)) |->
                                  IF c = Coord(missingPixel) THEN 1 ELSE 0]]).hole

(* ------------------------------------------------------------------ *)
(* State                                                               *)
(* ------------------------------------------------------------------ *)

VARIABLES
    rows, cols,       \* the dimensions of the image
    image,            \* float **image of main: [cells -> float]
    connectivity,     \* the pixel connectivity argument, 4 or 8
    epsilon, z,       \* the globals read by defaultWeightedFunction
    pc,               \* the position of the program
    missingPixel,     \* the Pixel returned by findMissingPixel
    visited,          \* calculateHole: bool **visited
    pixelQueue,       \* calculateHole: std::deque<Pixel> pixelQueue
    hole,             \* the Hole being built, then the Hole of main
    markedImage,      \* main: the copy whose boundary is marked
    filledImage,      \* main: the copy that is filled
    fillIndex,        \* fillImageHole: position of the outer range-for
    numerator,        \* fillImageHole: numerator of the last pixel
    denominator,      \* fillImageHole: denominator of the last pixel
    output,           \* what was written to std::cout
    returned,         \* <<>> while main runs, then <<its return value>>
    imageAtStart,     \* history: image when the pipeline started
    pushes,           \* history: push_back calls on pixelQueue, per cell
    iterations,       \* history: iterations of the while loop
    writes,           \* history: stores into filledImage, per cell
    holes,            \* caller of calculateHole: the Holes it was returned,
                      \* by connectivity or by missing pixel
    runs,             \* history: runs of the program completed before this one
    weightLog,        \* caller of defaultWeightedFunction: its evaluations
    contributed,      \* history: the neighbours neighboursFillImageHole
                      \* summed for each hole pixel, with the values read
    currentPixel      \* caller of setNeighbours: the Pixel it is called on

vars == <<rows, cols, image, connectivity, epsilon, z, pc, missingPixel,
          visited, pixelQueue, hole, markedImage, filledImage, fillIndex,
          numerator, denominator, output, returned, imageAtStart, pushes,
          iterations, writes, holes, runs, weightLog, contributed,
          currentPixel>>

(* ------------------------------------------------------------------ *)
(* Inputs                                                              *)
(* ------------------------------------------------------------------ *)

\* The shapes of the images considered.
Shapes == {s \in (1..MaxCells) \X (1..MaxCells) : s[1] * s[2] <= MaxCells}

\* The cells of a rws x cls image.
CellsOf(rws, cls) == (0..(rws - 1)) \X (0..(cls - 1))

Cells == CellsOf(rows, cols)

\* receiveImage normalizes the known intensities to [0,1].
Intensities == {ToFloat(0), ToFloat(1)}

\* The images main can hold at the try block: known or missing cells.
Images(rws, cls) ==
    [CellsOf(rws, cls) -> Intensities \cup {ToFloat(MISSING_VALUE)}]

\* validateNumeric accepts digits and '.' only: epsilon and z are not negative.
Epsilons == {0, 1}

\* The exponents considered are even, so that pow(sqrt(n), z) is an integer.
Zs == {0, 2}

Connectivities == {4, 8}

\* A pointer that is not allocated.
Null == <<>>

ZeroCount(rws, cls) == [c \in CellsOf(rws, cls) |-> 0]

(* ------------------------------------------------------------------ *)
(* defaultWeightedFunction, fillImageHole, markBoundaries, copyImage   *)
(* ------------------------------------------------------------------ *)

RECURSIVE IPow(_, _)
IPow(b, e) == IF e = 0 THEN 1 ELSE b * IPow(b, e - 1)

\* std::pow(std::sqrt(n), zz) for an even zz.
PowSqrt(n, zz) == IPow(n, zz \div 2)

\* norm^2 with pow(lhs.getY(), 2) as its second term: the y of rhs is not
\* subtracted.
SquaredNorm_RhsYDropped(lhs, rhs) ==
    (lhs.x - rhs.x) * (lhs.x - rhs.x) + lhs.y * lhs.y

\* norm^2 with the two squares multiplied: it is zero for two pixels of the
\* same row or of the same column.
SquaredNorm_Product(lhs, rhs) ==
    ((lhs.x - rhs.x) * (lhs.x - rhs.x)) * ((lhs.y - rhs.y) * (lhs.y - rhs.y))

\* norm^2 = (lhs.x - rhs.x)^2 + (lhs.y - rhs.y)^2
SquaredNorm(lhs, rhs) ==
    (lhs.x - rhs.x) * (lhs.x - rhs.x) + (lhs.y - rhs.y) * (lhs.y - rhs.y)

\* 1 / (pow(norm, z) + epsilon), with the globals z and epsilon.
defaultWeightedFunction(lhs, rhs) ==
    FDiv(ToFloat(1),
         FAdd(ToFloat(PowSqrt(SquaredNorm(lhs, rhs), z)), ToFloat(epsilon)))

\* The inner loop of fillImageHole over holeBoundary[k..], from the sums acc.
RECURSIVE BoundarySums(_, _, _, _, _)
BoundarySums(img, x, boundary, k, acc) ==
    IF k > Len(boundary) THEN acc
    ELSE LET y             == boundary[k]
             yValue        == img[Coord(y)]
             weightedValue == defaultWeightedFunction(x, y)
         IN  BoundarySums(img, x, boundary, k + 1,
                 [numerator   |-> FAdd(acc.numerator, FMul(weightedValue, yValue)),
                  denominator |-> FAdd(acc.denominator, weightedValue)])

\* The inner loop of neighboursFillImageHole over neighbours[k..], from the
\* sums acc.  acc.used lists the neighbours that were not skipped, each with
\* the value read for it.
RECURSIVE NeighbourSums(_, _, _, _, _)
NeighbourSums(img, x, nbs, k, acc) ==
    IF k > Len(nbs) THEN acc
    ELSE LET y      == Pixel(nbs[k][1], nbs[k][2])
             yValue == img[Coord(y)]
         IN  IF IsMissing(yValue)
             THEN NeighbourSums(img, x, nbs, k + 1, acc)
             ELSE LET weightedValue == defaultWeightedFunction(x, y)
                  IN  NeighbourSums(img, x, nbs, k + 1,
                          [numerator   |-> FAdd(acc.numerator,
                                                FMul(weightedValue, yValue)),
                           denominator |-> FAdd(acc.denominator, weightedValue),
                           used        |-> Append(acc.used,
                                                  [cell  |-> Coord(y),
                                                   value |-> yValue])])

\* float numerator = 0; float denominator = 0; and the inner loop over
\* x.getNeighbours().
NeighbourWeightedSums(img, x) ==
    NeighbourSums(img, x, x.neighbours, 1,
                  [numerator |-> ToFloat(0), denominator |-> ToFloat(0),
                   used |-> <<>>])

\* The sums of fillImageHole with a second inner loop, over the neighbours of
\* x that hold a value in the image being filled.
WeightedSums_NeighboursToo(img, x, boundary) ==
    LET b == BoundarySums(img, x, boundary, 1,
                          [numerator |-> ToFloat(0), denominator |-> ToFloat(0)])
        n == NeighbourSums(img, x, x.neighbours, 1,
                           [numerator |-> b.numerator,
                            denominator |-> b.denominator, used |-> <<>>])
    IN  [numerator |-> n.numerator, denominator |-> n.denominator]

\* float numerator = 0; float denominator = 0; and the inner loop.
WeightedSums(img, x, boundary) ==
    BoundarySums(img, x, boundary, 1,
                 [numerator |-> ToFloat(0), denominator |-> ToFloat(0)])

\* The body of the outer loop of fillImageHole storing newValue at the first
\* boundary pixel as well.
StoreNewValue_AlsoBoundary(img, x, boundary) ==
    LET sums     == WeightedSums(img, x, boundary)
        newValue == FDiv(sums.numerator, sums.denominator)
    IN  IF boundary = <<>> THEN [img EXCEPT ![Coord(x)] = newValue]
        ELSE [img EXCEPT ![Coord(x)] = newValue,
                         ![Coord(boundary[1])] = newValue]

\* The body of the outer loop of fillImageHole for the hole pixel x: the image
\* with newValue stored at x.
StoreNewValue(img, x, boundary) ==
    LET sums == WeightedSums(img, x, boundary)
    IN  [img EXCEPT ![Coord(x)] = FDiv(sums.numerator, sums.denominator)]

\* The outer loop of fillImageHole over holePixels[i..]: the image it leaves.
RECURSIVE fillImageHole(_, _, _)
fillImageHole(img, h, i) ==
    IF i > Len(h.holePixels) THEN img
    ELSE fillImageHole(StoreNewValue(img, h.holePixels[i], h.holeBoundary),
                       h, i + 1)

\* markBoundaries(&image, hole, markColor)
RECURSIVE MarkFrom(_, _, _, _)
MarkFrom(img, boundary, k, markColor) ==
    IF k > Len(boundary) THEN img
    ELSE MarkFrom([img EXCEPT ![Coord(boundary[k])] = markColor],
                  boundary, k + 1, markColor)

\* markBoundaries with a loop over the hole pixels before the loop over the
\* hole boundary: the hole is marked too.
markBoundaries_HoleToo(img, h, markColor) ==
    MarkFrom(img, h.holePixels \o h.holeBoundary, 1, markColor)

markBoundaries(img, h, markColor) == MarkFrom(img, h.holeBoundary, 1, markColor)

\* copyImage(image, rows, cols)
copyImage(img, rws, cls) == [c \in CellsOf(rws, cls) |-> img[c]]

(* ------------------------------------------------------------------ *)
(* float arithmetic with rounding (IEEE 754 binary32, round to nearest, *)
(* ties to even) on cells that are finite and not negative; overflow    *)
(* and subnormal results are out of the range of the values of an image *)
(* ------------------------------------------------------------------ *)

\* The number of bits of the significand of a float.
FLT_MANT_DIG == 24

\* The number of binary digits of the natural number n.
RECURSIVE BitLength(_)
BitLength(n) == IF n = 0 THEN 0 ELSE 1 + BitLength(n \div 2)

\* The exponent k of the power of two d = 2^k.
Log2(d) == BitLength(d) - 1

\* The number of zero bits at the low end of the positive number n.
RECURSIVE TrailingZeros(_)
TrailingZeros(n) == IF n % 2 = 1 THEN 0 ELSE 1 + TrailingZeros(n \div 2)

\* The cell of value n * 2^e, for a natural number n.
Dyadic(n, e) ==
    IF n = 0 THEN ToFloat(0)
    ELSE LET t == TrailingZeros(n)
             m == n \div IPow(2, t)
             f == e + t
         IN  IF f >= 0 THEN <<m * IPow(2, f), 1>> ELSE <<m, IPow(2, 0 - f)>>

\* The float nearest to n, or to a value strictly between n and n + 1 when
\* sticky is set, as a multiple of the same unit: the significand keeps
\* FLT_MANT_DIG bits and a tie goes to the even significand.
RoundToMantissa(n, sticky) ==
    LET s == BitLength(n) - FLT_MANT_DIG
    IN  IF s <= 0 THEN n
        ELSE LET unit == IPow(2, s)
                 q    == n \div unit
                 r    == n % unit
                 half == unit \div 2
                 up   == r > half \/ (r = half /\ (sticky \/ q % 2 = 1))
             IN  (IF up THEN q + 1 ELSE q) * unit

\* n * 2^s cut to an integer, with the flag of the bits cut off.
ShiftWithSticky(n, s) ==
    IF s >= 0 THEN [n |-> n * IPow(2, s), sticky |-> FALSE]
    ELSE IF 0 - s > FLT_MANT_DIG THEN [n |-> 0, sticky |-> n # 0]
    ELSE [n |-> n \div IPow(2, 0 - s), sticky |-> n % IPow(2, 0 - s) # 0]

\* a + b in float.  The operands are aligned to a unit that leaves three bits
\* below the significand of the larger one.
F32Add(a, b) ==
    IF a[1] = 0 THEN b
    ELSE IF b[1] = 0 THEN a
    ELSE LET ka == Log2(a[2])
             kb == Log2(b[2])
             pa == BitLength(a[1]) - ka
             pb == BitLength(b[1]) - kb
             kw == (FLT_MANT_DIG + 3) - (IF pa >= pb THEN pa ELSE pb)
             sa == ShiftWithSticky(a[1], kw - ka)
             sb == ShiftWithSticky(b[1], kw - kb)
         IN  Dyadic(RoundToMantissa(sa.n + sb.n, sa.sticky \/ sb.sticky),
                    0 - kw)

\* a * b in float.  The product of the two significands is formed from their
\* halves of 12 bits as hi * 2^24 + low.
F32Mul(a, b) ==
    IF a[1] = 0 \/ b[1] = 0 THEN ToFloat(0)
    ELSE LET ka   == Log2(a[2])
             kb   == Log2(b[2])
             half == IPow(2, FLT_MANT_DIG \div 2)
             full == IPow(2, FLT_MANT_DIG)
             ah   == a[1] \div half
             al   == a[1] % half
             bh   == b[1] \div half
             bl   == b[1] % half
             mid  == ah * bl + al * bh
             low  == (mid % half) * half + al * bl
             hi   == ah * bh + mid \div half + low \div full
             g    == IF BitLength(hi) <= 6 THEN FLT_MANT_DIG
                     ELSE (FLT_MANT_DIG + 6) - BitLength(hi)
             cut  == ShiftWithSticky(low % full, g - FLT_MANT_DIG)
         IN  Dyadic(RoundToMantissa(hi * IPow(2, g) + cut.n, cut.sticky),
                    (FLT_MANT_DIG - g) - ka - kb)

\* The first n bits of the quotient r / d, for r < 2 * d, after the bits q,
\* and the flag of a remainder.
RECURSIVE LongDivision(_, _, _, _)
LongDivision(r, d, n, q) ==
    IF n = 0 THEN [n |-> q, sticky |-> r # 0]
    ELSE IF r >= d THEN LongDivision((r - d) * 2, d, n - 1, 2 * q + 1)
    ELSE LongDivision(r * 2, d, n - 1, 2 * q)

\* a / b in float; with a zero divisor the quotient is an infinity or NaN.
F32Div(a, b) ==
    IF b[1] = 0 \/ a[2] = 0 THEN FDiv(a, b)
    ELSE IF a[1] = 0 THEN ToFloat(0)
    ELSE LET ka == Log2(a[2])
             kb == Log2(b[2])
             sa == FLT_MANT_DIG - BitLength(a[1])
             sb == FLT_MANT_DIG - BitLength(b[1])
             qt == LongDivision(a[1] * IPow(2, sa), b[1] * IPow(2, sb),
                                FLT_MANT_DIG + 3, 0)
         IN  Dyadic(RoundToMantissa(qt.n, qt.sticky),
                    (((kb + sb) - ka) - sa) - (FLT_MANT_DIG + 2))

\* a <= b for cells that are finite and not negative.
F32Leq(a, b) ==
    IF a[2] >= b[2] THEN a[1] <= b[1] * (a[2] \div b[2])
    ELSE a[1] * (b[2] \div a[2]) <= b[1]

(* ------------------------------------------------------------------ *)
(* main: the try block (HoleFilling.cpp 618-649)                       *)
(* ------------------------------------------------------------------ *)

\* The state in which main enters the try block: the arguments are parsed and
\* the image is converted to an array.
Init ==
    /\ \E s \in Shapes :
          /\ rows = s[1]
          /\ cols = s[2]
          /\ image \in Images(s[1], s[2])
          /\ pushes = ZeroCount(s[1], s[2])
          /\ writes = ZeroCount(s[1], s[2])
    /\ imageAtStart = image
    /\ connectivity \in Connectivities
    /\ epsilon \in Epsilons
    /\ z \in Zs
    /\ pc = "find"
    /\ missingPixel = Pixel(0, 0)
    /\ visited = Null
    /\ pixelQueue = <<>>
    /\ hole = EmptyHole
    /\ markedImage = Null
    /\ filledImage = Null
    /\ fillIndex = 0
    /\ numerator = ToFloat(0)
    /\ denominator = ToFloat(0)
    /\ output = <<>>
    /\ returned = <<>>
    /\ iterations = 0
    /\ holes = <<>>
    /\ runs = 0
    /\ weightLog = <<>>
    /\ contributed = <<>>
    /\ currentPixel = Pixel(0, 0)

\* Pixel missingPixel = findMissingPixel(image, rows, cols);
\* a NoMissingPixelException transfers control to the catch block.
FindMissingPixel ==
    /\ pc = "find"
    /\ LET r == findMissingPixel(image, rows, cols)
       IN  IF r.thrown
           THEN /\ pc' = "catch"
                /\ UNCHANGED missingPixel
           ELSE /\ pc' = "calc"
                /\ missingPixel' = r.pixel
    /\ UNCHANGED <<currentPixel, runs, weightLog, contributed, rows, cols, image, connectivity, epsilon, z, visited,
                   pixelQueue, hole, markedImage, filledImage, fillIndex,
                   numerator, denominator, output, returned, imageAtStart,
                   pushes, iterations, writes, holes>>

\* catch (HoleException&): print what() and return EXIT_SUCCESS.
CatchHoleException ==
    /\ pc = "catch"
    /\ output' = Append(output, "No missing pixel in the image.")
    /\ returned' = <<EXIT_SUCCESS>>
    /\ pc' = "done"
    /\ UNCHANGED <<currentPixel, runs, weightLog, contributed, rows, cols, image, connectivity, epsilon, z, missingPixel,
                   visited, pixelQueue, hole, markedImage, filledImage,
                   fillIndex, numerator, denominator, imageAtStart, pushes,
                   iterations, writes, holes>>

\* calculateHole up to the while loop: the visited array is allocated and
\* cleared and the missing pixel is pushed.
CalculateHoleEnter ==
    /\ pc = "calc"
    /\ hole' = EmptyHole
    /\ visited' = [c \in Cells |-> FALSE]
    /\ pixelQueue' = <<missingPixel>>
    /\ pushes' = [ZeroCount(rows, cols) EXCEPT ![Coord(missingPixel)] = 1]
    /\ iterations' = 0
    /\ pc' = "bfs"
    /\ UNCHANGED <<currentPixel, runs, weightLog, contributed, rows, cols, image, connectivity, epsilon, z, missingPixel,
                   markedImage, filledImage, fillIndex, numerator, denominator,
                   output, returned, imageAtStart, writes, holes>>

\* One iteration of the while loop of calculateHole.
CalculateHoleStep ==
    /\ pc = "bfs"
    /\ pixelQueue # <<>>
    /\ LET st == WhileBody(image, rows, cols, connectivity,
                           [visited |-> visited, pixelQueue |-> pixelQueue,
                            hole |-> hole, pushes |-> pushes])
       IN  /\ visited' = st.visited
           /\ pixelQueue' = st.pixelQueue
           /\ hole' = st.hole
           /\ pushes' = st.pushes
    /\ iterations' = iterations + 1
    /\ UNCHANGED <<currentPixel, runs, weightLog, contributed, rows, cols, image, connectivity, epsilon, z, pc,
                   missingPixel, markedImage, filledImage, fillIndex,
                   numerator, denominator, output, returned, imageAtStart,
                   writes, holes>>

\* The queue is empty: visited is freed and the hole returned to main.
CalculateHoleReturn ==
    /\ pc = "bfs"
    /\ pixelQueue = <<>>
    /\ visited' = Null
    /\ pc' = "mark"
    /\ UNCHANGED <<currentPixel, runs, weightLog, contributed, rows, cols, image, connectivity, epsilon, z, missingPixel,
                   pixelQueue, hole, markedImage, filledImage, fillIndex,
                   numerator, denominator, output, returned, imageAtStart,
                   pushes, iterations, writes, holes>>

\* markedImage = copyImage(image); markBoundaries(&markedImage, hole, 1);
MarkBoundaries ==
    /\ pc = "mark"
    /\ markedImage' = markBoundaries(copyImage(image, rows, cols), hole,
                                     ToFloat(DEFAULT_MARK_COLOR))
    /\ pc' = "copy"
    /\ UNCHANGED <<currentPixel, runs, weightLog, contributed, rows, cols, image, connectivity, epsilon, z, missingPixel,
                   visited, pixelQueue, hole, filledImage, fillIndex,
                   numerator, denominator, output, returned, imageAtStart,
                   pushes, iterations, writes, holes>>

\* filledImage = copyImage(image); and the call of fillImageHole.
FillImageHoleEnter ==
    /\ pc = "copy"
    /\ filledImage' = copyImage(image, rows, cols)
    /\ fillIndex' = 1
    /\ pc' = "fill"
    /\ UNCHANGED <<currentPixel, runs, weightLog, contributed, rows, cols, image, connectivity, epsilon, z, missingPixel,
                   visited, pixelQueue, hole, markedImage, numerator,
                   denominator, output, returned, imageAtStart, pushes,
                   iterations, writes, holes>>

\* fillImageHole without the store of newValue.
FillImageHoleStep_NoStore ==
    /\ pc = "fill"
    /\ fillIndex <= Len(hole.holePixels)
    /\ LET x    == hole.holePixels[fillIndex]
           sums == WeightedSums(filledImage, x, hole.holeBoundary)
       IN  /\ numerator' = sums.numerator
           /\ denominator' = sums.denominator
    /\ fillIndex' = fillIndex + 1
    /\ UNCHANGED <<currentPixel, runs, weightLog, contributed, rows, cols, image, connectivity, epsilon, z, pc,
                   missingPixel, visited, pixelQueue, hole, markedImage,
                   filledImage, output, returned, imageAtStart, pushes,
                   iterations, writes, holes>>

\* fillImageHole storing newValue at [x.getY()][x.getX()] where that cell
\* exists.
FillImageHoleStep_SwappedIndex ==
    /\ pc = "fill"
    /\ fillIndex <= Len(hole.holePixels)
    /\ LET x    == hole.holePixels[fillIndex]
           sums == WeightedSums(filledImage, x, hole.holeBoundary)
           newValue == FDiv(sums.numerator, sums.denominator)
           target == IF <<x.y, x.x>> \in Cells THEN <<x.y, x.x>> ELSE Coord(x)
       IN  /\ numerator' = sums.numerator
           /\ denominator' = sums.denominator
           /\ filledImage' = [filledImage EXCEPT ![target] = newValue]
           /\ writes' = [writes EXCEPT ![target] = @ + 1]
    /\ fillIndex' = fillIndex + 1
    /\ UNCHANGED <<currentPixel, runs, weightLog, contributed, rows, cols, image, connectivity, epsilon, z, pc,
                   missingPixel, visited, pixelQueue, hole, markedImage,
                   output, returned, imageAtStart, pushes, iterations, holes>>

\* One iteration of the outer loop of fillImageHole.  The build defines
\* NDEBUG, so assert(denominator != 0) is no statement.
FillImageHoleStep ==
    /\ pc = "fill"
    /\ fillIndex <= Len(hole.holePixels)
    /\ LET x    == hole.holePixels[fillIndex]
           sums == WeightedSums(filledImage, x, hole.holeBoundary)
           newValue == FDiv(sums.numerator, sums.denominator)
       IN  /\ numerator' = sums.numerator
           /\ denominator' = sums.denominator
           /\ filledImage' = [filledImage EXCEPT ![Coord(x)] = newValue]
           /\ writes' = [writes EXCEPT ![Coord(x)] = @ + 1]
    /\ fillIndex' = fillIndex + 1
    /\ UNCHANGED <<currentPixel, runs, weightLog, contributed, rows, cols, image, connectivity, epsilon, z, pc,
                   missingPixel, visited, pixelQueue, hole, markedImage,
                   output, returned, imageAtStart, pushes, iterations, holes>>

\* fillImageHole returns; the results are displayed, the three images are
\* freed and main returns EXIT_SUCCESS.
FillImageHoleReturn ==
    /\ pc = "fill"
    /\ fillIndex > Len(hole.holePixels)
    /\ returned' = <<EXIT_SUCCESS>>
    /\ pc' = "done"
    /\ UNCHANGED <<currentPixel, runs, weightLog, contributed, rows, cols, image, connectivity, epsilon, z, missingPixel,
                   visited, pixelQueue, hole, markedImage, filledImage,
                   fillIndex, numerator, denominator, output, imageAtStart,
                   pushes, iterations, writes, holes>>

Next ==
    \/ FindMissingPixel
    \/ CatchHoleException
    \/ CalculateHoleEnter
    \/ CalculateHoleStep
    \/ CalculateHoleReturn
    \/ MarkBoundaries
    \/ FillImageHoleEnter
    \/ FillImageHoleStep
    \/ FillImageHoleReturn

Spec == Init /\ [][Next]_vars

(* ------------------------------------------------------------------ *)
(* calculateHole called on its own: from any missing pixel of the      *)
(* image, with connectivity 4 and then with connectivity 8             *)
(* ------------------------------------------------------------------ *)

InitHole ==
    /\ \E s \in Shapes :
          /\ rows = s[1]
          /\ cols = s[2]
          /\ image \in Images(s[1], s[2])
          /\ pushes = ZeroCount(s[1], s[2])
          /\ writes = ZeroCount(s[1], s[2])
          /\ \E c \in CellsOf(s[1], s[2]) :
                /\ IsMissing(image[c])
                /\ missingPixel = Pixel(c[1], c[2])
    /\ imageAtStart = image
    /\ connectivity = 4
    /\ epsilon = EPSILON_INITIAL
    /\ z = Z_INITIAL
    /\ pc = "calc"
    /\ visited = Null
    /\ pixelQueue = <<>>
    /\ hole = EmptyHole
    /\ markedImage = Null
    /\ filledImage = Null
    /\ fillIndex = 0
    /\ numerator = ToFloat(0)
    /\ denominator = ToFloat(0)
    /\ output = <<>>
    /\ returned = <<>>
    /\ iterations = 0
    /\ holes = <<>>
    /\ runs = 0
    /\ weightLog = <<>>
    /\ contributed = <<>>
    /\ currentPixel = Pixel(0, 0)

\* The queue is empty: visited is freed and the hole returned to the caller,
\* which keeps it under the connectivity it asked for.
CalculateHoleReturnToCaller ==
    /\ pc = "bfs"
    /\ pixelQueue = <<>>
    /\ visited' = Null
    /\ holes' = (connectivity :> hole) @@ holes
    /\ pc' = "returned"
    /\ UNCHANGED <<currentPixel, runs, weightLog, contributed, rows, cols, image, connectivity, epsilon, z, missingPixel,
                   pixelQueue, hole, markedImage, filledImage, fillIndex,
                   numerator, denominator, output, returned, imageAtStart,
                   pushes, iterations, writes>>

\* The caller asks for the hole of the same pixel with connectivity 8.
CallWithConnectivity8 ==
    /\ pc = "returned"
    /\ 8 \notin DOMAIN holes
    /\ connectivity' = 8
    /\ pc' = "calc"
    /\ UNCHANGED <<currentPixel, runs, weightLog, contributed, rows, cols, image, epsilon, z, missingPixel, visited,
                   pixelQueue, hole, markedImage, filledImage, fillIndex,
                   numerator, denominator, output, returned, imageAtStart,
                   pushes, iterations, writes, holes>>

NextHole ==
    \/ CalculateHoleEnter
    \/ CalculateHoleStep
    \/ CalculateHoleReturnToCaller
    \/ CallWithConnectivity8

SpecHole == InitHole /\ [][NextHole]_vars

(* ------------------------------------------------------------------ *)
(* The program run a second time, on the image it has filled           *)
(* ------------------------------------------------------------------ *)

\* main has returned after the fill and no cell of the filled image equals
\* MISSING_VALUE: the program is started again with that image, and enters
\* the try block with fresh locals.
RunAgain ==
    /\ pc = "done"
    /\ output = <<>>
    /\ runs = 0
    /\ \A c \in Cells : filledImage[c] # ToFloat(MISSING_VALUE)
    /\ runs' = runs + 1
    /\ image' = filledImage
    /\ imageAtStart' = filledImage
    /\ pc' = "find"
    /\ missingPixel' = Pixel(0, 0)
    /\ visited' = Null
    /\ pixelQueue' = <<>>
    /\ hole' = EmptyHole
    /\ markedImage' = Null
    /\ filledImage' = Null
    /\ fillIndex' = 0
    /\ numerator' = ToFloat(0)
    /\ denominator' = ToFloat(0)
    /\ returned' = <<>>
    /\ pushes' = ZeroCount(rows, cols)
    /\ writes' = ZeroCount(rows, cols)
    /\ iterations' = 0
    /\ UNCHANGED <<currentPixel, weightLog, contributed, rows, cols, connectivity, epsilon,
                   z, output, holes>>

NextAgain ==
    \/ FindMissingPixel
    \/ CatchHoleException
    \/ CalculateHoleEnter
    \/ CalculateHoleStep
    \/ CalculateHoleReturn
    \/ MarkBoundaries
    \/ FillImageHoleEnter
    \/ FillImageHoleStep
    \/ FillImageHoleReturn
    \/ RunAgain

SpecAgain == Init /\ [][NextAgain]_vars

(* ------------------------------------------------------------------ *)
(* defaultWeightedFunction called on its own                           *)
(* ------------------------------------------------------------------ *)

\* The pixels defaultWeightedFunction is called with.
WeightPixels == {Pixel(x, y) : x \in 0..MaxCoord, y \in 0..MaxCoord}

\* The globals epsilon and z are set from the arguments; nothing else of the
\* program has run.
InitWeight ==
    /\ epsilon \in Epsilons
    /\ z \in Zs
    /\ weightLog = <<>>
    /\ pc = "weight"
    /\ rows = 1
    /\ cols = 1
    /\ image = [c \in CellsOf(1, 1) |-> ToFloat(0)]
    /\ imageAtStart = image
    /\ pushes = ZeroCount(1, 1)
    /\ writes = ZeroCount(1, 1)
    /\ connectivity = 4
    /\ missingPixel = Pixel(0, 0)
    /\ visited = Null
    /\ pixelQueue = <<>>
    /\ hole = EmptyHole
    /\ markedImage = Null
    /\ filledImage = Null
    /\ fillIndex = 0
    /\ numerator = ToFloat(0)
    /\ denominator = ToFloat(0)
    /\ output = <<>>
    /\ returned = <<>>
    /\ iterations = 0
    /\ holes = <<>>
    /\ runs = 0
    /\ contributed = <<>>
    /\ currentPixel = Pixel(0, 0)

\* A first call defaultWeightedFunction(lhs, rhs); the caller keeps the
\* arguments and the value returned.
EvaluateWeight ==
    /\ pc = "weight"
    /\ weightLog = <<>>
    /\ \E lhs \in WeightPixels, rhs \in WeightPixels :
          weightLog' = <<[lhs |-> lhs, rhs |-> rhs,
                          value |-> defaultWeightedFunction(lhs, rhs)]>>
    /\ UNCHANGED <<currentPixel, runs, contributed, rows, cols, image, connectivity, epsilon,
                   z, pc, missingPixel, visited, pixelQueue, hole, markedImage,
                   filledImage, fillIndex, numerator, denominator, output,
                   returned, imageAtStart, pushes, iterations, writes, holes>>

\* A second call, with the same globals, kept next to the first.
EvaluateWeightAgain ==
    /\ pc = "weight"
    /\ Len(weightLog) = 1
    /\ \E lhs \in WeightPixels, rhs \in WeightPixels :
          weightLog' = Append(weightLog,
                              [lhs |-> lhs, rhs |-> rhs,
                               value |-> defaultWeightedFunction(lhs, rhs)])
    /\ UNCHANGED <<currentPixel, runs, contributed, rows, cols, image, connectivity, epsilon,
                   z, pc, missingPixel, visited, pixelQueue, hole, markedImage,
                   filledImage, fillIndex, numerator, denominator, output,
                   returned, imageAtStart, pushes, iterations, writes, holes>>

NextWeight ==
    \/ EvaluateWeight
    \/ EvaluateWeightAgain

SpecWeight == InitWeight /\ [][NextWeight]_vars

(* ------------------------------------------------------------------ *)
(* Pixel::setNeighbours called on its own                              *)
(* ------------------------------------------------------------------ *)

\* A fresh Pixel inside an image of maxX rows and maxY columns.
InitPixel ==
    /\ rows \in 1..MaxSide
    /\ cols \in 1..MaxSide
    /\ connectivity \in Connectivities
    /\ \E c \in CellsOf(rows, cols) : currentPixel = Pixel(c[1], c[2])
    /\ pc = "fresh"
    /\ image = [c \in CellsOf(rows, cols) |-> ToFloat(0)]
    /\ imageAtStart = image
    /\ pushes = ZeroCount(rows, cols)
    /\ writes = ZeroCount(rows, cols)
    /\ epsilon = EPSILON_INITIAL
    /\ z = Z_INITIAL
    /\ missingPixel = Pixel(0, 0)
    /\ visited = Null
    /\ pixelQueue = <<>>
    /\ hole = EmptyHole
    /\ markedImage = Null
    /\ filledImage = Null
    /\ fillIndex = 0
    /\ numerator = ToFloat(0)
    /\ denominator = ToFloat(0)
    /\ output = <<>>
    /\ returned = <<>>
    /\ iterations = 0
    /\ holes = <<>>
    /\ runs = 0
    /\ weightLog = <<>>
    /\ contributed = <<>>

\* currentPixel.setNeighbours(connectivity, rows, cols) on the fresh Pixel.
SetNeighbours ==
    /\ pc = "fresh"
    /\ currentPixel' = setNeighbours(currentPixel, connectivity, rows, cols)
    /\ pc' = "set"
    /\ UNCHANGED <<runs, weightLog, contributed, rows, cols, image,
                   connectivity, epsilon, z, missingPixel, visited, pixelQueue,
                   hole, markedImage, filledImage, fillIndex, numerator,
                   denominator, output, returned, imageAtStart, pushes,
                   iterations, writes, holes>>

\* The same call once more on the same Pixel, as calculateHole makes it.
SetNeighboursAgain ==
    /\ pc = "set"
    /\ currentPixel' = setNeighbours(currentPixel, connectivity, rows, cols)
    /\ pc' = "set twice"
    /\ UNCHANGED <<runs, weightLog, contributed, rows, cols, image,
                   connectivity, epsilon, z, missingPixel, visited, pixelQueue,
                   hole, markedImage, filledImage, fillIndex, numerator,
                   denominator, output, returned, imageAtStart, pushes,
                   iterations, writes, holes>>

NextPixel ==
    \/ SetNeighbours
    \/ SetNeighboursAgain

SpecPixel == InitPixel /\ [][NextPixel]_vars

(* ------------------------------------------------------------------ *)
(* neighboursFillImageHole: main with neighboursFillImageHole as the   *)
(* fill function                                                       *)
(* ------------------------------------------------------------------ *)

\* neighboursFillImageHole reading the neighbours' values from the image
\* main keeps unchanged, and not from the image it stores to.
NeighboursFillImageHoleStep_ReadsOriginal ==
    /\ pc = "fill"
    /\ fillIndex <= Len(hole.holePixels)
    /\ LET x    == hole.holePixels[fillIndex]
           sums == NeighbourWeightedSums(image, x)
           newValue == FDiv(sums.numerator, sums.denominator)
       IN  /\ numerator' = sums.numerator
           /\ denominator' = sums.denominator
           /\ contributed' = Append(contributed, sums.used)
           /\ filledImage' = [filledImage EXCEPT ![Coord(x)] = newValue]
           /\ writes' = [writes EXCEPT ![Coord(x)] = @ + 1]
    /\ fillIndex' = fillIndex + 1
    /\ UNCHANGED <<currentPixel, runs, weightLog, rows, cols, image,
                   connectivity, epsilon, z, pc, missingPixel, visited,
                   pixelQueue, hole, markedImage, output, returned,
                   imageAtStart, pushes, iterations, holes>>

\* One iteration of the outer loop of neighboursFillImageHole.  The build
\* defines NDEBUG, so the two assert statements are no statements.
NeighboursFillImageHoleStep ==
    /\ pc = "fill"
    /\ fillIndex <= Len(hole.holePixels)
    /\ LET x    == hole.holePixels[fillIndex]
           sums == NeighbourWeightedSums(filledImage, x)
           newValue == FDiv(sums.numerator, sums.denominator)
       IN  /\ numerator' = sums.numerator
           /\ denominator' = sums.denominator
           /\ contributed' = Append(contributed, sums.used)
           /\ filledImage' = [filledImage EXCEPT ![Coord(x)] = newValue]
           /\ writes' = [writes EXCEPT ![Coord(x)] = @ + 1]
    /\ fillIndex' = fillIndex + 1
    /\ UNCHANGED <<currentPixel, runs, weightLog, rows, cols, image,
                   connectivity, epsilon, z, pc, missingPixel, visited,
                   pixelQueue, hole, markedImage, output, returned,
                   imageAtStart, pushes, iterations, holes>>

NextNeighbours ==
    \/ FindMissingPixel
    \/ CatchHoleException
    \/ CalculateHoleEnter
    \/ CalculateHoleStep
    \/ CalculateHoleReturn
    \/ MarkBoundaries
    \/ FillImageHoleEnter
    \/ NeighboursFillImageHoleStep
    \/ FillImageHoleReturn

SpecNeighbours == Init /\ [][NextNeighbours]_vars

(* ------------------------------------------------------------------ *)
(* fillImageHole over the hole pixels in any order                     *)
(* ------------------------------------------------------------------ *)

\* The body of the outer loop of fillImageHole for a hole pixel that was not
\* processed yet, whatever its position: the iterations of a call on a hole
\* whose pixels are listed in another order.
FillImageHoleStepAnyOrder ==
    /\ pc = "fill"
    /\ fillIndex <= Len(hole.holePixels)
    /\ \E i \in DOMAIN hole.holePixels :
          LET x    == hole.holePixels[i]
              sums == WeightedSums(filledImage, x, hole.holeBoundary)
          IN  /\ writes[Coord(x)] = 0
              /\ numerator' = sums.numerator
              /\ denominator' = sums.denominator
              /\ filledImage' = StoreNewValue(filledImage, x, hole.holeBoundary)
              /\ writes' = [writes EXCEPT ![Coord(x)] = @ + 1]
    /\ fillIndex' = fillIndex + 1
    /\ UNCHANGED <<currentPixel, runs, weightLog, contributed, rows, cols,
                   image, connectivity, epsilon, z, pc, missingPixel, visited,
                   pixelQueue, hole, markedImage, output, returned,
                   imageAtStart, pushes, iterations, holes>>

NextAnyOrder ==
    \/ FindMissingPixel
    \/ CatchHoleException
    \/ CalculateHoleEnter
    \/ CalculateHoleStep
    \/ CalculateHoleReturn
    \/ MarkBoundaries
    \/ FillImageHoleEnter
    \/ FillImageHoleStepAnyOrder
    \/ FillImageHoleReturn

SpecAnyOrder == Init /\ [][NextAnyOrder]_vars

\* The intensities of the float images: 177/255 as receiveImage normalizes
\* it, which is 5822681 * 2^-23, and 255/255.
FloatIntensities == {<<5822681, 8388608>>, ToFloat(1)}

FloatShapes ==
    {s \in (1..MaxFloatCells) \X (1..MaxFloatCells) :
        s[1] * s[2] <= MaxFloatCells}

FloatImages(rws, cls) ==
    [CellsOf(rws, cls) -> FloatIntensities \cup {ToFloat(MISSING_VALUE)}]

\* The values of epsilon of the runs in float arithmetic.
FloatEpsilons == {0, 2}

\* defaultWeightedFunction in float arithmetic.  The runs in float arithmetic
\* have z = 0, for which pow returns 1 whatever the norm; the quotient is
\* computed in double and converted to float, which for these operands is
\* the float quotient.
defaultWeightedFunctionFloat(lhs, rhs) ==
    F32Div(ToFloat(1),
           F32Add(ToFloat(PowSqrt(SquaredNorm(lhs, rhs), z)), ToFloat(epsilon)))

\* The inner loop of fillImageHole with numerator += yValue for
\* numerator += weightedValue * yValue.
RECURSIVE BoundarySumsFloat_Unweighted(_, _, _, _, _)
BoundarySumsFloat_Unweighted(img, x, boundary, k, acc) ==
    IF k > Len(boundary) THEN acc
    ELSE LET y             == boundary[k]
             yValue        == img[Coord(y)]
             weightedValue == defaultWeightedFunctionFloat(x, y)
         IN  BoundarySumsFloat_Unweighted(img, x, boundary, k + 1,
                 [numerator   |-> F32Add(acc.numerator, yValue),
                  denominator |-> F32Add(acc.denominator, weightedValue)])

\* The inner loop of fillImageHole over holeBoundary[k..] in float arithmetic.
RECURSIVE BoundarySumsFloat(_, _, _, _, _)
BoundarySumsFloat(img, x, boundary, k, acc) ==
    IF k > Len(boundary) THEN acc
    ELSE LET y             == boundary[k]
             yValue        == img[Coord(y)]
             weightedValue == defaultWeightedFunctionFloat(x, y)
         IN  BoundarySumsFloat(img, x, boundary, k + 1,
                 [numerator   |-> F32Add(acc.numerator,
                                         F32Mul(weightedValue, yValue)),
                  denominator |-> F32Add(acc.denominator, weightedValue)])

\* float numerator = 0; float denominator = 0; and the inner loop.
WeightedSumsFloat(img, x, boundary) ==
    BoundarySumsFloat(img, x, boundary, 1,
                      [numerator |-> ToFloat(0), denominator |-> ToFloat(0)])

(* ------------------------------------------------------------------ *)
(* main with the fill in float arithmetic                              *)
(* ------------------------------------------------------------------ *)

\* main enters the try block with an image of float intensities, z = 0 and an
\* epsilon that makes the weights 1 or 1/3.
InitFloat ==
    /\ \E s \in FloatShapes :
          /\ rows = s[1]
          /\ cols = s[2]
          /\ image \in FloatImages(s[1], s[2])
          /\ pushes = ZeroCount(s[1], s[2])
          /\ writes = ZeroCount(s[1], s[2])
    /\ imageAtStart = image
    /\ connectivity \in Connectivities
    /\ epsilon \in FloatEpsilons
    /\ z = 0
    /\ pc = "find"
    /\ missingPixel = Pixel(0, 0)
    /\ visited = Null
    /\ pixelQueue = <<>>
    /\ hole = EmptyHole
    /\ markedImage = Null
    /\ filledImage = Null
    /\ fillIndex = 0
    /\ numerator = ToFloat(0)
    /\ denominator = ToFloat(0)
    /\ output = <<>>
    /\ returned = <<>>
    /\ iterations = 0
    /\ holes = <<>>
    /\ runs = 0
    /\ weightLog = <<>>
    /\ contributed = <<>>
    /\ currentPixel = Pixel(0, 0)

\* One iteration of the outer loop of fillImageHole in float arithmetic.
FillImageHoleStepFloat ==
    /\ pc = "fill"
    /\ fillIndex <= Len(hole.holePixels)
    /\ LET x    == hole.holePixels[fillIndex]
           sums == WeightedSumsFloat(filledImage, x, hole.holeBoundary)
           newValue == F32Div(sums.numerator, sums.denominator)
       IN  /\ numerator' = sums.numerator
           /\ denominator' = sums.denominator
           /\ filledImage' = [filledImage EXCEPT ![Coord(x)] = newValue]
           /\ writes' = [writes EXCEPT ![Coord(x)] = @ + 1]
    /\ fillIndex' = fillIndex + 1
    /\ UNCHANGED <<currentPixel, runs, weightLog, contributed, rows, cols,
                   image, connectivity, epsilon, z, pc, missingPixel, visited,
                   pixelQueue, hole, markedImage, output, returned,
                   imageAtStart, pushes, iterations, holes>>

NextFloat ==
    \/ FindMissingPixel
    \/ CatchHoleException
    \/ CalculateHoleEnter
    \/ CalculateHoleStep
    \/ CalculateHoleReturn
    \/ MarkBoundaries
    \/ FillImageHoleEnter
    \/ FillImageHoleStepFloat
    \/ FillImageHoleReturn

SpecFloat == InitFloat /\ [][NextFloat]_vars

(* ------------------------------------------------------------------ *)
(* Two holes of one image: calculateHole from two missing pixels, and  *)
(* the two calls of fillImageHole on one copy, interleaved             *)
(* ------------------------------------------------------------------ *)

InitTwoHoles ==
    /\ \E s \in Shapes :
          /\ rows = s[1]
          /\ cols = s[2]
          /\ image \in Images(s[1], s[2])
          /\ pushes = ZeroCount(s[1], s[2])
          /\ writes = ZeroCount(s[1], s[2])
    /\ imageAtStart = image
    /\ connectivity \in Connectivities
    /\ epsilon = 0
    /\ z = 2
    /\ pc = "holes"
    /\ missingPixel = Pixel(0, 0)
    /\ visited = Null
    /\ pixelQueue = <<>>
    /\ hole = EmptyHole
    /\ markedImage = Null
    /\ filledImage = Null
    /\ fillIndex = 0
    /\ numerator = ToFloat(0)
    /\ denominator = ToFloat(0)
    /\ output = <<>>
    /\ returned = <<>>
    /\ iterations = 0
    /\ holes = <<>>
    /\ runs = 0
    /\ weightLog = <<>>
    /\ contributed = <<>>
    /\ currentPixel = Pixel(0, 0)

\* calculateHole is called from two missing pixels and returns two holes that
\* do not have the same pixels; the image is copied for the fill.
CalculateTwoHoles ==
    /\ pc = "holes"
    /\ \E a, b \in Cells :
          LET holeA == calculateHole(image, rows, cols, Pixel(a[1], a[2]),
                                     connectivity)
              holeB == calculateHole(image, rows, cols, Pixel(b[1], b[2]),
                                     connectivity)
          IN  /\ a # b
              /\ IsMissing(image[a])
              /\ IsMissing(image[b])
              /\ {Coord(holeA.holePixels[i]) : i \in DOMAIN holeA.holePixels}
                   # {Coord(holeB.holePixels[i]) : i \in DOMAIN holeB.holePixels}
              /\ holes' = (a :> holeA) @@ (b :> holeB)
    /\ filledImage' = copyImage(image, rows, cols)
    /\ pc' = "fills"
    /\ UNCHANGED <<currentPixel, runs, weightLog, contributed, rows, cols,
                   image, connectivity, epsilon, z, missingPixel, visited,
                   pixelQueue, hole, markedImage, fillIndex, numerator,
                   denominator, output, returned, imageAtStart, pushes,
                   iterations, writes>>

\* The position of the range-for of the call of fillImageHole on the hole h:
\* one more than the pixels of h it has stored to.
NextIndex(h) ==
    Cardinality({i \in DOMAIN h.holePixels :
                    writes[Coord(h.holePixels[i])] >= 1}) + 1

\* One iteration of the outer loop of one of the two calls of fillImageHole.
FillStepOfHole ==
    /\ pc = "fills"
    /\ \E s \in DOMAIN holes :
          LET h == holes[s]
              i == NextIndex(h)
          IN  /\ i <= Len(h.holePixels)
              /\ filledImage' = StoreNewValue(filledImage, h.holePixels[i],
                                              h.holeBoundary)
              /\ writes' = [writes EXCEPT ![Coord(h.holePixels[i])] = @ + 1]
    /\ fillIndex' = fillIndex + 1
    /\ UNCHANGED <<currentPixel, runs, weightLog, contributed, rows, cols,
                   image, connectivity, epsilon, z, pc, missingPixel, visited,
                   pixelQueue, hole, markedImage, numerator, denominator,
                   output, returned, imageAtStart, pushes, iterations, holes>>

\* Both calls of fillImageHole have returned.
FillsReturn ==
    /\ pc = "fills"
    /\ \A s \in DOMAIN holes : NextIndex(holes[s]) > Len(holes[s].holePixels)
    /\ pc' = "done"
    /\ UNCHANGED <<currentPixel, runs, weightLog, contributed, rows, cols,
                   image, connectivity, epsilon, z, missingPixel, visited,
                   pixelQueue, hole, markedImage, filledImage, fillIndex,
                   numerator, denominator, output, returned, imageAtStart,
                   pushes, iterations, writes, holes>>

NextTwoHoles ==
    \/ CalculateTwoHoles
    \/ FillStepOfHole
    \/ FillsReturn

SpecTwoHoles == InitTwoHoles /\ [][NextTwoHoles]_vars

(* ------------------------------------------------------------------ *)
(* Notions the properties are stated with                              *)
(* ------------------------------------------------------------------ *)

\* The coordinates of the pixels of a sequence of Pixels.
CoordSet(pixels) == {Coord(pixels[i]) : i \in DOMAIN pixels}

\* No coordinate occurs at two positions of the sequence.
NoDuplicates(pixels) ==
    \A i, j \in DOMAIN pixels : i # j => Coord(pixels[i]) # Coord(pixels[j])

\* a and b are adjacent cells: they share an edge, or with connectivity 8 an
\* edge or a corner.
Adjacent(a, b, conn) ==
    /\ a # b
    /\ Abs(a[1] - b[1]) <= 1
    /\ Abs(a[2] - b[2]) <= 1
    /\ (conn = 4 => Abs(a[1] - b[1]) + Abs(a[2] - b[2]) = 1)

MissingCells(img) == {c \in DOMAIN img : IsMissing(img[c])}

\* The least set of missing cells that contains S and every missing cell
\* adjacent to one of its members.
RECURSIVE Closure(_, _, _)
Closure(img, S, conn) ==
    LET more == {c \in MissingCells(img) : \E a \in S : Adjacent(a, c, conn)}
    IN  IF more \subseteq S THEN S ELSE Closure(img, S \cup more, conn)

\* The maximal connected set of missing cells that contains the cell seed.
Component(img, seed, conn) == Closure(img, {seed}, conn)

\* a comes before b in row-major order.
RowMajorBefore(a, b) == a[1] < b[1] \/ (a[1] = b[1] /\ a[2] < b[2])

Interior == CoordSet(hole.holePixels)

Boundary == CoordSet(hole.holeBoundary)

(* ------------------------------------------------------------------ *)
(* Properties                                                          *)
(* ------------------------------------------------------------------ *)

\* C1: when calculateHole has returned, the coordinates of the hole pixels are
\* exactly the missing cells connected to the seed by a chain of missing
\* cells adjacent under the connectivity of the call.
C1_InteriorIsComponent ==
    pc = "returned" =>
        Interior = Component(image, Coord(missingPixel), connectivity)

\* A call with connectivity 8 returned a hole of three pixels or more that a
\* diagonal step enlarges and that is not the whole image.
C1_Witness ==
    /\ pc = "returned"
    /\ connectivity = 8
    /\ Cardinality(Interior) >= 3
    /\ Interior # CoordSet(holes[4].holePixels)
    /\ Interior # Cells

\* C2: when calculateHole has returned, the coordinates of the hole boundary
\* are exactly the cells that are not missing and are adjacent to a hole
\* pixel under the connectivity of the call.
C2_BoundaryIsAdjacentKnown ==
    pc = "returned" =>
        Boundary = {c \in Cells : /\ ~ IsMissing(image[c])
                                  /\ \E a \in Interior :
                                        Adjacent(a, c, connectivity)}

\* A returned hole with a boundary of two cells or more, next to a known cell
\* that is not in the boundary.
C2_Witness ==
    /\ pc = "returned"
    /\ Cardinality(Boundary) >= 2
    /\ \E c \in Cells : ~ IsMissing(image[c]) /\ c \notin Boundary

\* C3: when calculateHole has returned, no cell is both a hole pixel and a
\* boundary pixel, and no cell occurs twice among the hole pixels or twice
\* among the boundary pixels.
C3_DisjointNoDuplicates ==
    pc = "returned" =>
        /\ Interior \cap Boundary = {}
        /\ NoDuplicates(hole.holePixels)
        /\ NoDuplicates(hole.holeBoundary)

\* A returned hole one of whose boundary pixels is adjacent to two hole pixels.
C3_Witness ==
    /\ pc = "returned"
    /\ \E b \in Boundary :
          Cardinality({a \in Interior : Adjacent(a, b, connectivity)}) >= 2

\* main went through fillImageHole and returned.
Filled == pc = "done" /\ output = <<>>

\* C4, as claimed: when the pipeline has run on an image with a missing pixel
\* and the hole has a boundary, no cell of the filled image is missing.
C4_NoSentinelAnywhere ==
    (Filled /\ hole.holeBoundary # <<>>) =>
        \A c \in Cells : ~ IsMissing(filledImage[c])

\* C4, amended: when the pipeline has run and the hole has a boundary, the
\* missing cells left in the filled image are exactly the missing cells of the
\* image that are not connected to the first missing pixel: every pixel of
\* the hole of that pixel holds a value, the other holes are not filled.
C4_HoleOfSeedFilled ==
    (Filled /\ hole.holeBoundary # <<>>) =>
        MissingCells(filledImage) =
            MissingCells(imageAtStart)
                \ Component(imageAtStart, Coord(missingPixel), connectivity)

\* The pipeline has filled a hole of two pixels or more and left a missing
\* pixel of another hole.
C4_Witness ==
    /\ Filled
    /\ hole.holeBoundary # <<>>
    /\ Cardinality(Interior) >= 2
    /\ MissingCells(filledImage) # {}

\* C5: while and after fillImageHole runs, every cell that is not a hole pixel
\* holds in the filled image the value it has in the image and was never
\* stored to, no hole pixel was stored to twice, and after the fill every hole
\* pixel was stored to once.
C5_FillWritesInteriorOnce ==
    pc \in {"fill", "done"} /\ output = <<>> =>
        /\ \A c \in Cells \ Interior :
              filledImage[c] = imageAtStart[c] /\ writes[c] = 0
        /\ \A c \in Interior : writes[c] <= 1
        /\ pc = "done" => \A c \in Interior : writes[c] = 1

\* The fill is over for a hole of two pixels or more that has a boundary and
\* is not the only hole of the image.
C5_Witness ==
    /\ Filled
    /\ Cardinality(Interior) >= 2
    /\ Boundary # {}
    /\ MissingCells(imageAtStart) \ Interior # {}

\* C6: on an image with a missing cell findMissingPixel does not throw, and
\* the pixel it returns is a missing cell that no missing cell precedes in
\* row-major order.
C6_FirstMissingRowMajor ==
    (pc # "find" /\ MissingCells(image) # {}) =>
        /\ pc # "catch"
        /\ output = <<>>
        /\ IsMissing(image[Coord(missingPixel)])
        /\ \A c \in Cells :
              RowMajorBefore(c, Coord(missingPixel)) => ~ IsMissing(image[c])

\* findMissingPixel returned a pixel that is not in the first row nor in the
\* first column, while a missing cell lies in a column to its left.
C6_Witness ==
    /\ pc = "calc"
    /\ missingPixel.x >= 1
    /\ missingPixel.y >= 1
    /\ \E c \in MissingCells(image) : c[2] < missingPixel.y

\* C7: on an image without a missing cell the program is only ever at the
\* call of findMissingPixel, in the catch block or at its end: calculateHole
\* and the fill are not run, no image is copied, no cell of the image changes,
\* and at the end the message is printed and main has returned EXIT_SUCCESS.
C7_NoMissingPixelShortCircuits ==
    MissingCells(imageAtStart) = {} =>
        /\ pc \in {"find", "catch", "done"}
        /\ image = imageAtStart
        /\ hole = EmptyHole
        /\ visited = Null /\ pixelQueue = <<>> /\ iterations = 0
        /\ markedImage = Null /\ filledImage = Null
        /\ \A c \in Cells : writes[c] = 0 /\ pushes[c] = 0
        /\ pc = "done" => /\ output = <<"No missing pixel in the image.">>
                          /\ returned = <<EXIT_SUCCESS>>

\* main has ended on an image of several cells none of which is missing.
C7_Witness ==
    /\ pc = "done"
    /\ MissingCells(imageAtStart) = {}
    /\ output # <<>>
    /\ Cardinality(Cells) >= 4

\* C8: during a call of calculateHole and after it no cell was pushed onto
\* the queue twice; the pushes made so far, which are the pixels taken from
\* the queue and the pixels in it, are as many as the cells pushed and at most
\* rows * cols.  Every iteration of the loop adds one to iterations, so the
\* loop ends after rows * cols iterations at most, with an empty queue.
C8_EnqueuesBounded ==
    /\ pc \in {"bfs", "returned"} =>
          /\ \A c \in Cells : pushes[c] <= 1
          /\ iterations + Len(pixelQueue) =
                Cardinality({c \in Cells : pushes[c] >= 1})
          /\ iterations + Len(pixelQueue) <= rows * cols
    /\ pc = "returned" => pixelQueue = <<>> /\ iterations = Len(hole.holePixels)

\* A call has returned after three iterations or more on an image with a
\* missing cell that two hole pixels are adjacent to.
C8_Witness ==
    /\ pc = "returned"
    /\ iterations >= 3
    /\ \E c \in Interior :
          Cardinality({a \in Interior : Adjacent(a, c, connectivity)}) >= 2

\* C9: once both calls have returned, every pixel of the hole computed with
\* connectivity 4 is a pixel of the hole computed with connectivity 8 from the
\* same image and the same missing pixel.
C9_ConnectivityMonotone ==
    DOMAIN holes = {4, 8} =>
        CoordSet(holes[4].holePixels) \subseteq CoordSet(holes[8].holePixels)

\* Both calls have returned, the hole of connectivity 4 has two pixels or more
\* and the hole of connectivity 8 has a pixel more.
C9_Witness ==
    /\ DOMAIN holes = {4, 8}
    /\ Cardinality(CoordSet(holes[4].holePixels)) >= 2
    /\ CoordSet(holes[8].holePixels) # CoordSet(holes[4].holePixels)


\* C10: the hole calculateHole returned has an empty boundary exactly if its
\* pixels are all the cells of the image, and a pixel for which fillImageHole
\* computed a zero denominator belongs to such a hole.
C10_EmptyBoundaryIffWholeImage ==
    (pc \in {"mark", "copy", "fill", "done"} /\ output = <<>>) =>
        /\ hole.holeBoundary = <<>> <=> Interior = Cells
        /\ (fillIndex > 1 /\ denominator = ToFloat(0)) => Interior = Cells

\* fillImageHole has computed a zero denominator for a pixel of an image of
\* several cells that are all missing.
C10_Witness ==
    /\ pc = "fill"
    /\ fillIndex > 1
    /\ denominator = ToFloat(0)
    /\ hole.holeBoundary = <<>>
    /\ Interior = Cells
    /\ Cardinality(Cells) >= 4

\* A pixel of a hole that has a boundary got a positive denominator.
C10_WitnessPositive ==
    /\ pc = "fill"
    /\ fillIndex > 1
    /\ hole.holeBoundary # <<>>
    /\ denominator # ToFloat(0)

\* C11: a pixel for which fillImageHole computed a zero denominator is not
\* stored to: while and after the fill of a hole without boundary no cell of
\* the filled image was written and every hole pixel is still missing.
C11_ZeroDenominatorNotStored ==
    (pc \in {"fill", "done"} /\ output = <<>> /\ hole.holeBoundary = <<>>) =>
        \A c \in Interior : writes[c] = 0 /\ IsMissing(filledImage[c])

\* C12: when the program is run again on a filled image none of whose cells
\* equals MISSING_VALUE, findMissingPixel throws: the run is only ever at the
\* call of findMissingPixel, in the catch block or at its end, no hole is
\* computed, no image is copied or stored to, the image stays the filled image
\* of the first run, and the run ends with the message and EXIT_SUCCESS.
C12_SecondRunIsNoOp ==
    runs = 1 =>
        /\ pc \in {"find", "catch", "done"}
        /\ image = imageAtStart
        /\ hole = EmptyHole
        /\ visited = Null /\ pixelQueue = <<>> /\ iterations = 0
        /\ markedImage = Null /\ filledImage = Null
        /\ \A c \in Cells : writes[c] = 0 /\ pushes[c] = 0
        /\ pc = "done" => /\ output = <<"No missing pixel in the image.">>
                          /\ returned = <<EXIT_SUCCESS>>

\* The second run has ended on an image one of whose cells holds a value the
\* first run interpolated, which is neither 0 nor 1.
C12_Witness ==
    /\ runs = 1
    /\ pc = "done"
    /\ \E c \in Cells : image[c][2] > 1

\* The second run has ended on an image whose cells the first run filled with
\* NaN, the quotient 0/0 of a hole without boundary.
C12_WitnessNaN ==
    /\ runs = 1
    /\ pc = "done"
    /\ \E c \in Cells : image[c] = NaN

\* The squared Euclidean distance of the cells a and b.
SquaredDistance(a, b) ==
    (a[1] - b[1]) * (a[1] - b[1]) + (a[2] - b[2]) * (a[2] - b[2])

\* C13: with epsilon and z fixed, two evaluations of defaultWeightedFunction
\* one of which has the arguments of the other in the other order return the
\* same weight, and so do two evaluations on pairs of pixels at the same
\* squared Euclidean distance.
C13_WeightSymmetric ==
    \A i, j \in DOMAIN weightLog :
        LET e == weightLog[i]
            f == weightLog[j]
        IN  /\ (e.lhs = f.rhs /\ e.rhs = f.lhs) => e.value = f.value
            /\ SquaredDistance(Coord(e.lhs), Coord(e.rhs))
                   = SquaredDistance(Coord(f.lhs), Coord(f.rhs))
                 => e.value = f.value

\* With epsilon = 0 and z = 2 the function was evaluated on two pixels that
\* differ in both coordinates and on the same pixels in the other order.
C13_Witness ==
    /\ epsilon = 0 /\ z = 2
    /\ Len(weightLog) = 2
    /\ weightLog[1].lhs = weightLog[2].rhs
    /\ weightLog[1].rhs = weightLog[2].lhs
    /\ weightLog[1].lhs.x # weightLog[1].rhs.x
    /\ weightLog[1].lhs.y # weightLog[1].rhs.y
    /\ weightLog[1].value = weightLog[2].value
    /\ IsFinite(weightLog[1].value)

\* The offsets of the neighbours that share an edge, and of those that share
\* a corner only.
EdgeOffsets == {<<1, 0>>, <<-1, 0>>, <<0, 1>>, <<0, -1>>}

CornerOffsets == {<<1, 1>>, <<1, -1>>, <<-1, 1>>, <<-1, -1>>}

\* The cells of the image at one of the offsets from the cell c.
CellsAt(c, offsets) ==
    {<<c[1] + d[1], c[2] + d[2]>> : d \in offsets} \cap Cells

\* No element occurs at two positions of the sequence.
Injective(seq) == \A i, j \in DOMAIN seq : i # j => seq[i] # seq[j]

\* C14: after one call of setNeighbours on a fresh Pixel inside the image the
\* neighbour list has no element twice, and its elements are exactly the
\* cells of the image at (x+-1, y) and (x, y+-1), with connectivity 8 these and
\* the cells of the image at (x+-1, y+-1): no coordinate outside the image
\* and not the pixel itself.
C14_NeighboursExact ==
    pc = "set" =>
        LET nbs == {currentPixel.neighbours[i] :
                        i \in DOMAIN currentPixel.neighbours}
        IN  /\ Injective(currentPixel.neighbours)
            /\ nbs = CellsAt(Coord(currentPixel),
                             IF connectivity = 8
                             THEN EdgeOffsets \cup CornerOffsets
                             ELSE EdgeOffsets)
            /\ nbs \subseteq Cells
            /\ Coord(currentPixel) \notin nbs

\* setNeighbours was called with connectivity 8 on a pixel all of whose eight
\* neighbours are in the image.
C14_Witness ==
    /\ pc = "set"
    /\ connectivity = 8
    /\ Len(currentPixel.neighbours) = 8

\* setNeighbours was called on a corner pixel with connectivity 4: two of its
\* four neighbours are outside the image.
C14_WitnessCorner ==
    /\ pc = "set"
    /\ connectivity = 4
    /\ Coord(currentPixel) = <<0, 0>>
    /\ Len(currentPixel.neighbours) = 2

\* C15: from the return of calculateHole on, every hole pixel x and every
\* boundary pixel y have different coordinates, so norm^2 of x and y is 1 or
\* more; with epsilon = 0 and z = 2 every weight of a hole pixel and a
\* boundary pixel is then finite and positive, and a pixel for which
\* fillImageHole computed a zero denominator belongs to a hole without
\* boundary: the values stored for a hole with a boundary are finite.
C15_NoZeroWeightDenominator ==
    (pc \in {"mark", "copy", "fill", "done"} /\ output = <<>>) =>
        /\ \A i \in DOMAIN hole.holePixels, j \in DOMAIN hole.holeBoundary :
              LET x == hole.holePixels[i]
                  y == hole.holeBoundary[j]
              IN  /\ Coord(x) # Coord(y)
                  /\ SquaredNorm(x, y) >= 1
                  /\ (epsilon = 0 /\ z = 2) =>
                        /\ IsFinite(defaultWeightedFunction(x, y))
                        /\ defaultWeightedFunction(x, y)[1] > 0
        /\ (epsilon = 0 /\ z = 2 /\ pc \in {"fill", "done"}) =>
              /\ (fillIndex > 1 /\ denominator = ToFloat(0)) =>
                    hole.holeBoundary = <<>>
              /\ hole.holeBoundary # <<>> =>
                    \A c \in Interior :
                        writes[c] >= 1 => IsFinite(filledImage[c])

\* With epsilon = 0 and z = 2 the fill is over for a hole of two pixels or more
\* with a boundary pixel next to a hole pixel and two cells or more away from
\* another.
C15_Witness ==
    /\ Filled
    /\ epsilon = 0 /\ z = 2
    /\ Cardinality(Interior) >= 2
    /\ \E b \in Boundary :
          /\ \E a \in Interior : SquaredDistance(a, b) = 1
          /\ \E a \in Interior : SquaredDistance(a, b) >= 4

\* C16, as claimed: at every evaluation of the loop condition of
\* calculateHole, the first included, every pixel in the queue is marked in
\* visited, no pixel is in the queue twice and no pixel in the queue is a
\* hole pixel.
C16_QueuedAreVisited ==
    pc = "bfs" =>
        /\ \A i \in DOMAIN pixelQueue : visited[Coord(pixelQueue[i])]
        /\ NoDuplicates(pixelQueue)
        /\ CoordSet(pixelQueue) \cap Interior = {}

\* C16, amended: at every evaluation of the loop condition of calculateHole
\* no pixel is in the queue twice and no pixel in the queue is a hole pixel;
\* before the first iteration the queue holds the missing pixel alone, which
\* is not marked in visited (it is marked when it is taken from the queue);
\* from the first iteration on every pixel in the queue is marked.
C16_QueuedAreVisitedButSeed ==
    pc = "bfs" =>
        /\ iterations = 0 =>
              /\ pixelQueue = <<missingPixel>>
              /\ ~ visited[Coord(missingPixel)]
        /\ iterations >= 1 =>
              /\ \A i \in DOMAIN pixelQueue : visited[Coord(pixelQueue[i])]
              /\ visited[Coord(missingPixel)]
        /\ NoDuplicates(pixelQueue)
        /\ CoordSet(pixelQueue) \cap Interior = {}

\* After two iterations or more the queue holds two pixels or more, one of
\* them adjacent to two hole pixels.
C16_Witness ==
    /\ pc = "bfs"
    /\ iterations >= 2
    /\ Len(pixelQueue) >= 2
    /\ \E i \in DOMAIN pixelQueue :
          Cardinality({a \in Interior :
                          Adjacent(a, Coord(pixelQueue[i]), connectivity)}) >= 2

\* The position of the cell c in the list of hole pixels, 0 if it is not a
\* hole pixel.
PositionInHole(c) ==
    IF c \in Interior
    THEN CHOOSE i \in DOMAIN hole.holePixels : Coord(hole.holePixels[i]) = c
    ELSE 0

\* The elements of a sequence.
Range(seq) == {seq[i] : i \in DOMAIN seq}

C18_NeighbourAssertionsHold ==
    (pc \in {"fill", "done"} /\ output = <<>> /\ hole.holeBoundary # <<>>) =>
        /\ \A i \in DOMAIN hole.holePixels :
              hole.holePixels[i].neighbours # <<>>
        /\ \A i \in DOMAIN contributed : contributed[i] # <<>>
        /\ fillIndex > 1 => denominator # ToFloat(0)
        /\ \A c \in Interior : writes[c] >= 1 => IsFinite(filledImage[c])

\* C19: every hole pixel but the first has in its neighbour list a hole pixel
\* that precedes it in the list of hole pixels and has it in its own
\* neighbour list; when neighboursFillImageHole processes it, such a
\* neighbour has been stored to earlier in the pass and enters the sums.
C19_LaterPixelsHaveFilledNeighbour ==
    (pc \in {"fill", "done"} /\ output = <<>>) =>
        /\ \A i \in DOMAIN hole.holePixels :
              i >= 2 =>
                \E j \in 1..(i - 1) :
                    /\ Coord(hole.holePixels[j])
                          \in Range(hole.holePixels[i].neighbours)
                    /\ Coord(hole.holePixels[i])
                          \in Range(hole.holePixels[j].neighbours)
        /\ \A i \in DOMAIN contributed :
              i >= 2 =>
                \E u \in Range(contributed[i]) :
                    /\ PositionInHole(u.cell) \in 1..(i - 1)
                    /\ writes[u.cell] = 1
                    /\ u.value = filledImage[u.cell]

\* The pass is over for a hole of three pixels or more one of which is not a
\* neighbour of the first.
C19_Witness ==
    /\ Filled
    /\ Len(contributed) >= 3
    /\ \E i \in DOMAIN hole.holePixels :
          /\ i >= 2
          /\ Coord(hole.holePixels[1])
                \notin Range(hole.holePixels[i].neighbours)

\* C20: in whatever order fillImageHole processes the hole pixels, it stores
\* to no boundary pixel, the value a hole pixel holds once it is stored to is
\* the quotient of the sums over the boundary pixels' values in the image
\* before the fill, and the image left when all are processed is the image
\* the loop leaves in the order of the list.
C20_FillOrderIndependent ==
    (pc \in {"fill", "done"} /\ output = <<>>) =>
        /\ \A c \in Boundary :
              writes[c] = 0 /\ filledImage[c] = imageAtStart[c]
        /\ \A i \in DOMAIN hole.holePixels :
              LET x    == hole.holePixels[i]
                  sums == WeightedSums(imageAtStart, x, hole.holeBoundary)
              IN  writes[Coord(x)] = 1 =>
                      filledImage[Coord(x)] =
                          FDiv(sums.numerator, sums.denominator)
        /\ pc = "done" =>
              filledImage =
                  fillImageHole(copyImage(imageAtStart, rows, cols), hole, 1)

\* The loop is over for a hole with a boundary two of whose pixels hold
\* different values.
C20_Witness ==
    /\ Filled
    /\ hole.holeBoundary # <<>>
    /\ \E c, d \in Interior : filledImage[c] # filledImage[d]

\* A state of the loop in which the last pixel of the list is stored to and
\* the first is not.
C20_WitnessOutOfOrder ==
    /\ pc = "fill"
    /\ Len(hole.holePixels) >= 3
    /\ hole.holeBoundary # <<>>
    /\ writes[Coord(hole.holePixels[Len(hole.holePixels)])] = 1
    /\ writes[Coord(hole.holePixels[1])] = 0

\* The value of a cell in units of 2^-FLT_MANT_DIG, for a cell that is a
\* multiple of that unit.
InUnits(v) == v[1] * (IPow(2, FLT_MANT_DIG) \div v[2])

\* The cells fillImageHole has stored to.
Written == {c \in Interior : writes[c] >= 1}

C21_WitnessBetween ==
    /\ Filled
    /\ epsilon = 2
    /\ \E c \in Interior :
          /\ \E b \in Boundary : ~ F32Leq(filledImage[c], image[b])
          /\ \E b \in Boundary : ~ F32Leq(image[b], filledImage[c])

\* C22: for the two holes calculateHole returned for one image and one
\* connectivity, no pixel of one is a pixel or a boundary pixel of the other;
\* the two fills store to the pixels of the two holes only, to each once at
\* most, and to no cell either of them reads; when both are over, however
\* their iterations were interleaved, the image is the one left by the fill
\* of the one hole followed by the fill of the other, in either order.
C22_HolesIndependent ==
    pc \in {"fills", "done"} =>
        \A s, t \in DOMAIN holes :
            s # t =>
                LET intS == CoordSet(holes[s].holePixels)
                    intT == CoordSet(holes[t].holePixels)
                    bndT == CoordSet(holes[t].holeBoundary)
                    bndS == CoordSet(holes[s].holeBoundary)
                    start == copyImage(imageAtStart, rows, cols)
                IN  /\ intS \cap intT = {}
                    /\ intS \cap bndT = {}
                    /\ \A c \in Cells :
                          /\ writes[c] <= 1
                          /\ writes[c] = 1 => c \in intS \cup intT
                          /\ c \in bndS \cup bndT =>
                                filledImage[c] = imageAtStart[c]
                    /\ pc = "done" =>
                          /\ filledImage =
                                fillImageHole(
                                    fillImageHole(start, holes[s], 1),
                                    holes[t], 1)
                          /\ \A c \in intS \cup intT : writes[c] = 1

\* The two fills are interleaved: each hole has a pixel stored to and a pixel
\* not stored to yet, and a cell is a boundary pixel of both holes.
C22_Witness ==
    /\ pc = "fills"
    /\ \A s \in DOMAIN holes :
          /\ NextIndex(holes[s]) > 1
          /\ NextIndex(holes[s]) <= Len(holes[s].holePixels)
    /\ \E s, t \in DOMAIN holes :
          /\ s # t
          /\ CoordSet(holes[s].holeBoundary)
                \cap CoordSet(holes[t].holeBoundary) # {}

\* The length of a shortest chain of adjacent missing cells from a cell of S
\* to the cell c, counted from d; -1 if there is none.
RECURSIVE DistanceFrom(_, _, _, _, _)
DistanceFrom(img, S, c, conn, d) ==
    IF c \in S THEN d
    ELSE LET more == {n \in MissingCells(img) :
                         \E a \in S : Adjacent(a, n, conn)}
         IN  IF more \subseteq S THEN -1
             ELSE DistanceFrom(img, S \cup more, c, conn, d + 1)

\* The graph distance of the cell c from the missing pixel calculateHole was
\* called with.
SeedDistance(c) == DistanceFrom(image, {Coord(missingPixel)}, c, connectivity, 0)

\* C23: during and after calculateHole the first hole pixel is the missing
\* pixel of the call, every hole pixel is connected to it by missing cells,
\* and no hole pixel is nearer to it, in steps between adjacent missing
\* cells, than a hole pixel before it in the list.
C23_InteriorInBreadthFirstOrder ==
    pc \in {"bfs", "returned"} =>
        /\ hole.holePixels # <<>> =>
              Coord(hole.holePixels[1]) = Coord(missingPixel)
        /\ \A i \in DOMAIN hole.holePixels :
              SeedDistance(Coord(hole.holePixels[i])) >= 0
        /\ \A i, j \in DOMAIN hole.holePixels :
              i < j => SeedDistance(Coord(hole.holePixels[i]))
                          <= SeedDistance(Coord(hole.holePixels[j]))

\* calculateHole returned a hole with two pixels at the same distance from
\* the missing pixel and a pixel three steps away from it.
C23_Witness ==
    /\ pc = "returned"
    /\ \E i, j \in DOMAIN hole.holePixels :
          /\ i # j
          /\ SeedDistance(Coord(hole.holePixels[i]))
                = SeedDistance(Coord(hole.holePixels[j]))
    /\ \E i \in DOMAIN hole.holePixels :
          SeedDistance(Coord(hole.holePixels[i])) >= 3

\* C24: from the return of calculateHole to the end of main no step changes
\* the image or the Hole.  The step that marks leaves a copy that differs
\* from the image at the boundary pixels only, where it holds the mark colour;
\* the step that copies for the fill leaves a copy equal to the image; a step
\* of fillImageHole changes neither the marked copy nor a cell of the filled
\* copy that is not a hole pixel.
C24_FrameOfMarkAndFill ==
    [][(pc \in {"mark", "copy", "fill"}) =>
          /\ image' = image
          /\ image' = imageAtStart
          /\ hole' = hole
          /\ pc = "mark" =>
                \A c \in Cells :
                    markedImage'[c] =
                        IF c \in Boundary THEN ToFloat(DEFAULT_MARK_COLOR)
                        ELSE image[c]
          /\ pc = "copy" =>
                /\ markedImage' = markedImage
                /\ filledImage' = image
          /\ pc = "fill" =>
                /\ markedImage' = markedImage
                /\ \A c \in Cells \ Interior :
                      filledImage'[c] = filledImage[c]]_vars

\* main has ended after it marked a boundary pixel that does not hold the mark
\* colour in the image and filled a hole of two pixels or more.
C24_Witness ==
    /\ Filled
    /\ Cardinality(Interior) >= 2
    /\ \E b \in Boundary : markedImage[b] # image[b]
    /\ \E c \in Interior : filledImage[c] # image[c]
    /\ \E c \in Cells \ (Interior \cup Boundary) : markedImage[c] = image[c]

\* The cells of the image at the offsets of a list from the cell c, in the
\* order of the list.
CellsInOrder(c, offsets) ==
    LET InImage(d) == <<c[1] + d[1], c[2] + d[2]>> \in Cells
        kept == SelectSeq(offsets, InImage)
    IN  [i \in DOMAIN kept |-> <<c[1] + kept[i][1], c[2] + kept[i][2]>>]

\* The offsets in the order of the claim, and in the order of the code.
ClaimedOffsets(conn) ==
    << <<1, 0>>, <<-1, 0>>, <<0, 1>>, <<0, -1>> >>
    \o (IF conn = 8
        THEN << <<1, 1>>, <<1, -1>>, <<-1, 1>>, <<-1, -1>> >>
        ELSE <<>>)

MaskOffsets(conn) ==
    << <<1, 0>>, <<0, 1>>, <<-1, 0>>, <<0, -1>> >>
    \o (IF conn = 8
        THEN << <<1, 1>>, <<1, -1>>, <<-1, -1>>, <<-1, 1>> >>
        ELSE <<>>)

\* C25, as claimed: after one call of setNeighbours the neighbour list is the
\* list of the cells of the image at the offsets (+1,0), (-1,0), (0,+1),
\* (0,-1), with connectivity 8 followed by (+1,+1), (+1,-1), (-1,+1),
\* (-1,-1), in that order.
C25_ClaimedOffsetOrder ==
    pc = "set" =>
        currentPixel.neighbours =
            CellsInOrder(Coord(currentPixel), ClaimedOffsets(connectivity))

\* C25, amended: after one call of setNeighbours the neighbour list is the
\* list of the cells of the image at the offsets (+1,0), (0,+1), (-1,0),
\* (0,-1), with connectivity 8 followed by (+1,+1), (+1,-1), (-1,-1),
\* (-1,+1), in that order; a second call on the same pixel with the same
\* connectivity and bounds appends the same sequence once more.
C25_MaskOffsetOrder ==
    LET expected == CellsInOrder(Coord(currentPixel), MaskOffsets(connectivity))
    IN  /\ pc = "set" => currentPixel.neighbours = expected
        /\ pc = "set twice" => currentPixel.neighbours = expected \o expected

\* setNeighbours was called twice with connectivity 8 on a pixel all of whose
\* eight neighbours are in the image.
C25_Witness ==
    /\ pc = "set twice"
    /\ connectivity = 8
    /\ Len(currentPixel.neighbours) = 16

====
